---- MODULE Spec2Model ----
(***************************************************************************)
(* A model of the market-research agent: the output validator              *)
(* (MarketResearchAgent._parse_and_validate_output with the                *)
(* MarketResearchOutput schema) and the retry loop around the reasoning    *)
(* driver (MarketResearchAgent.research).                                  *)
(*                                                                         *)
(* Strings whose case matters are sequences of one-character strings.      *)
(* Floats are fixed-point integers in hundredths (50 is 0.50, 100 is 1.0). *)
(* A text is a sequence of tokens; the members of a JSON object between    *)
(* its braces are one token carrying the object's key/value pairs.         *)
(***************************************************************************)
EXTENDS Integers, Sequences, FiniteSets, TLC

VARIABLES
    v_prefix,      \* validator harness: the prose before the body of the text
    v_body,        \* validator harness: the body of the text
    v_suffix,      \* validator harness: the prose after the body of the text
    v_asset,       \* validator harness: the requested asset
    v_out,         \* validator harness: outcome of _parse_and_validate_output
    v_done,        \* validator harness: whether the validator has run
    v_again,       \* validator harness: outcome of validating the serialised record
    v_redone,      \* validator harness: whether the serialised record was validated
    pc,            \* research: position of the call
    asset,         \* research: the asset argument
    max_retries,   \* research: the max_retries argument
    attempt,       \* research: the loop variable of "for attempt in range(max_retries)"
    agent_steps,   \* research: the local list agent_steps
    tool_calls,    \* research: the local list tool_calls
    output_text,   \* research: the local output_text of the latest attempt
    result,        \* research: the returned dictionary
    raised,        \* research: the exception that left research
    invocations,   \* history: number of agent_executor.invoke calls made
    last_steps,    \* history: intermediate_steps of the latest driver return
    driver_exc,    \* history: the exception the latest driver invocation raised, if it did
    now,           \* research: what time.time() returns, in seconds
    start_time,    \* research: the local start_time
    validations,   \* history: number of _parse_and_validate_output calls made
    prompts,       \* history: the prompts given to the driver, in order
    t_asset,       \* tools: the asset argument of the latest execute call
    t_tool,        \* tools: the name of the tool executed last ("" before any call)
    t_sample,      \* tools: the values random.uniform returned in that call
    t_result,      \* tools: the dictionary that call returned
    t_exc,         \* tools: the exception that call raised
    t_wrapper,     \* tools: the name of the LangChain wrapper called ("" for a direct call)
    t_returned,    \* tools: the string the wrapper returned
    m_client,      \* document store: MongoDBClient.client ("unset" before __init__)
    m_collection,  \* document store: the documents of ai_execution_logs
    m_last,        \* document store: the latest log_execution call and its outcome
    m_calls,       \* history: number of log_execution calls made
    p_requests,    \* relational store: the rows of research_requests
    p_reports,     \* relational store: the rows of research_reports
    p_created,     \* history: the arguments each stored report was created with
    p_last,        \* relational store: the latest repository call and its outcome
    p_calls,       \* history: number of repository calls made
    p_sessions,    \* relational store: the state of each session obtained, in order
    c_calls,       \* concurrent calls: each research call's position, outcome and history
    c_frames,      \* concurrent calls: the local variables of research, by frame
    c_now          \* concurrent calls: the clock time.time() reads

vars == <<v_prefix, v_body, v_suffix, v_asset, v_out, v_done, v_again, v_redone,
          pc, asset, max_retries, attempt,
          agent_steps, tool_calls, output_text, result, raised, invocations,
          last_steps, driver_exc, now, start_time, validations, prompts,
          t_asset, t_tool, t_sample, t_result, t_exc, t_wrapper, t_returned,
          m_client, m_collection, m_last, m_calls,
          p_requests, p_reports, p_created, p_last, p_calls, p_sessions,
          c_calls, c_frames, c_now>>

c_vars == <<c_calls, c_frames, c_now>>

v_vars == <<v_prefix, v_body, v_suffix, v_asset, v_out, v_done, v_again, v_redone>>

t_vars == <<t_asset, t_tool, t_sample, t_result, t_exc, t_wrapper, t_returned>>

m_vars == <<m_client, m_collection, m_last, m_calls>>

p_vars == <<p_requests, p_reports, p_created, p_last, p_calls, p_sessions>>

\* validator harness: the output_text handed to the validator
v_text == v_prefix \o v_body \o v_suffix

r_vars == <<pc, asset, max_retries, attempt, agent_steps, tool_calls,
            output_text, result, raised, invocations, last_steps, driver_exc,
            now, start_time, validations, prompts>>

\* what the actions of each part leave alone
not_r_vars == <<v_vars, t_vars, m_vars, p_vars, c_vars>>
not_v_vars == <<r_vars, t_vars, m_vars, p_vars, c_vars>>
not_t_vars == <<v_vars, r_vars, m_vars, p_vars, c_vars>>
not_m_vars == <<v_vars, r_vars, t_vars, p_vars, c_vars>>
not_p_vars == <<v_vars, r_vars, t_vars, m_vars, c_vars>>
not_c_vars == <<v_vars, r_vars, t_vars, m_vars, p_vars>>

----------------------------------------------------------------------------
(* Bounds of the model *)

\* longest prose prefix / suffix put around a body, in tokens
MaxAffix == 1

\* largest max_retries argument tried
MaxRetries == 2

\* longest intermediate_steps list one driver run returns in the model
MaxSteps == 2

----------------------------------------------------------------------------
(* Strings and str.upper() *)

LowerLetters == <<"a","b","c","d","e","f","g","h","i","j","k","l","m",
                  "n","o","p","q","r","s","t","u","v","w","x","y","z">>

UpperLetters == <<"A","B","C","D","E","F","G","H","I","J","K","L","M",
                  "N","O","P","Q","R","S","T","U","V","W","X","Y","Z">>

UpperChar(c) ==
    IF \E i \in 1..26 : LowerLetters[i] = c
    THEN UpperLetters[CHOOSE i \in 1..26 : LowerLetters[i] = c]
    ELSE c

\* str.upper(): every cased character mapped to upper case
Upper(s) == [i \in 1..Len(s) |-> UpperChar(s[i])]

BTC == <<"B","T","C">>
btc == <<"b","t","c">>
ETH == <<"E","T","H">>
eth == <<"e","t","h">>

Low == <<"L","o","w">>
Medium == <<"M","e","d","i","u","m">>
High == <<"H","i","g","h">>
low == <<"l","o","w">>
Invalid == <<"I","n","v","a","l","i","d">>

\* the list in validate_risk_level
AllowedRiskLevels == {Low, Medium, High}

\* the ge / le constraints of sentiment_score, in hundredths
ScoreMin == 0
ScoreMax == 100

----------------------------------------------------------------------------
(* JSON values: t is the JSON type, n the number, s the characters of a   *)
(* string, l the elements of an array of strings.                         *)

JV(t, n, s, l) == [t |-> t, n |-> n, s |-> s, l |-> l]
Num(n) == JV("number", n, <<>>, <<>>)
Str(s) == JV("string", 0, s, <<>>)
Arr(l) == JV("array", 0, <<>>, l)
Null == JV("null", 0, <<>>, <<>>)

\* the members of an object: a function from the keys present to values
NoMembers == [k \in {} |-> Null]

\* a parsed document: its JSON type and, for an object, its members
Doc(t, o) == [t |-> t, o |-> o]

----------------------------------------------------------------------------
(* Texts *)

Tok(c) == [c |-> c, o |-> NoMembers]
LBrace == Tok("{")
RBrace == Tok("}")
LBracket == Tok("[")
RBracket == Tok("]")
Word == Tok("word")          \* a run of prose that is no JSON token
Space == Tok(" ")            \* JSON whitespace
NumLit == Tok("5")           \* a number literal
NullLit == Tok("null")
StrLit == Tok("\"s\"")       \* a quoted string literal without braces
Members(o) == [c |-> "members", o |-> o]   \* "k": v, ... of a non-empty object

\* the serialisation of an object with members o
ObjectText(o) ==
    IF DOMAIN o = {} THEN <<LBrace, RBrace>> ELSE <<LBrace, Members(o), RBrace>>

----------------------------------------------------------------------------
(* Exceptions *)

\* an exception: its class, its message, the field errors a pydantic
\* ValidationError lists (also the cause embedded in a wrapping message),
\* and the attempt count a message embeds (0 when it embeds none)
Exc(cls, msg, errs, attempts) ==
    [cls |-> cls, msg |-> msg, errs |-> errs, attempts |-> attempts]

NoExc == Exc("", "", {}, 0)

\* the direct base class of each exception class used
BaseOf(cls) ==
    CASE cls = "ValidationError" -> "ValueError"
      [] cls = "JSONDecodeError" -> "ValueError"
      [] cls = "ValueError" -> "Exception"
      [] cls = "TypeError" -> "Exception"
      [] cls = "RuntimeError" -> "Exception"
      [] cls = "PyMongoError" -> "Exception"
      [] cls = "ConnectionFailure" -> "PyMongoError"
      [] cls = "InvalidDocument" -> "Exception"
      [] cls = "SQLAlchemyError" -> "Exception"
      [] cls = "DataError" -> "SQLAlchemyError"
      [] cls = "OperationalError" -> "SQLAlchemyError"
      [] OTHER -> ""

\* isinstance(e, cls) for an exception of class c
IsInstance(c, cls) ==
    c # "" /\ (c = cls \/ BaseOf(c) = cls \/ BaseOf(BaseOf(c)) = cls)

----------------------------------------------------------------------------
(* json.loads *)

IsNotSpace(t) == t # Space

ParseFail == [ok |-> FALSE, doc |-> Doc("none", NoMembers)]
ParseOk(t, o) == [ok |-> TRUE, doc |-> Doc(t, o)]

RECURSIVE ParseValue(_)
\* one JSON value spanning all of toks (whitespace already skipped)
ParseValue(toks) ==
    LET n == Len(toks) IN
    IF n = 0 THEN ParseFail
    ELSE IF toks = <<NumLit>> THEN ParseOk("number", NoMembers)
    ELSE IF toks = <<NullLit>> THEN ParseOk("null", NoMembers)
    ELSE IF toks = <<StrLit>> THEN ParseOk("string", NoMembers)
    ELSE IF n >= 2 /\ toks[1] = LBrace /\ toks[n] = RBrace
         THEN IF n = 2 THEN ParseOk("object", NoMembers)
              ELSE IF n = 3 /\ toks[2].c = "members"
                   THEN ParseOk("object", toks[2].o)
                   ELSE ParseFail
    ELSE IF n >= 2 /\ toks[1] = LBracket /\ toks[n] = RBracket
         THEN IF n = 2 \/ ParseValue(SubSeq(toks, 2, n - 1)).ok
              THEN ParseOk("array", NoMembers)
              ELSE ParseFail
    ELSE ParseFail

\* json.loads(text): ok is FALSE where it raises json.JSONDecodeError
JsonLoads(text) == ParseValue(SelectSeq(text, IsNotSpace))

\* str.find(tok): lowest 0-based index of tok, -1 when absent
Find(text, tok) ==
    IF \E i \in 1..Len(text) : text[i] = tok
    THEN (CHOOSE i \in 1..Len(text) :
              text[i] = tok /\ \A j \in 1..(i - 1) : text[j] # tok) - 1
    ELSE -1

\* str.rfind(tok): highest 0-based index of tok, -1 when absent
RFind(text, tok) ==
    IF \E i \in 1..Len(text) : text[i] = tok
    THEN (CHOOSE i \in 1..Len(text) :
              text[i] = tok /\ \A j \in (i + 1)..Len(text) : text[j] # tok) - 1
    ELSE -1

\* text[from:to] for 0 <= from and 0 <= to <= len(text)
Slice(text, from, to) == SubSeq(text, from + 1, to)

----------------------------------------------------------------------------
(* MarketResearchOutput *)

Rec(a, r, sc, tu, an) ==
    [asset |-> a, risk_level |-> r, sentiment_score |-> sc,
     tools_used |-> tu, analysis |-> an]

NoRec == Rec(<<>>, <<>>, 0, <<>>, Null)

Returned(rec) == [rec |-> rec, exc |-> NoExc]
Raised(exc) == [rec |-> NoRec, exc |-> exc]

Has(o, k) == k \in DOMAIN o

\* analysis declared as a plain str
AnalysisTypes_NotOptional == {"string"}

\* analysis: Optional[str], the JSON types it accepts
AnalysisTypes == {"string", "null"}

\* the errors pydantic reports for the field declarations (lines 22-26);
\* the values tried are JSON numbers, strings, arrays of strings and null,
\* none of which pydantic converts to another declared type
FieldErrors(o) ==
    (IF ~Has(o, "asset") THEN {<<"asset", "missing">>}
     ELSE IF o["asset"].t # "string" THEN {<<"asset", "string_type">>}
     ELSE {})
    \cup
    (IF ~Has(o, "risk_level") THEN {<<"risk_level", "missing">>}
     ELSE IF o["risk_level"].t # "string" THEN {<<"risk_level", "string_type">>}
     ELSE {})
    \cup
    (IF ~Has(o, "sentiment_score") THEN {<<"sentiment_score", "missing">>}
     ELSE IF o["sentiment_score"].t # "number"
          THEN {<<"sentiment_score", "float_type">>}
     ELSE IF ~(o["sentiment_score"].n >= ScoreMin)
          THEN {<<"sentiment_score", "greater_than_equal">>}
     ELSE IF ~(o["sentiment_score"].n <= ScoreMax)
          THEN {<<"sentiment_score", "less_than_equal">>}
     ELSE {})
    \cup
    (IF ~Has(o, "tools_used") THEN {<<"tools_used", "missing">>}
     ELSE IF o["tools_used"].t # "array" THEN {<<"tools_used", "list_type">>}
     ELSE {})
    \cup
    (IF Has(o, "analysis") /\ o["analysis"].t \notin AnalysisTypes
     THEN {<<"analysis", "string_type">>}
     ELSE {})

\* a constructor that leaves tools_used empty
Construct_NoTools(o) ==
    Rec(o["asset"].s, o["risk_level"].s, o["sentiment_score"].n, <<>>,
        IF Has(o, "analysis") THEN o["analysis"] ELSE Null)

\* MarketResearchOutput(**o) for members o without field errors: the
\* declared fields only, analysis defaulting to None
Construct(o) ==
    Rec(o["asset"].s, o["risk_level"].s, o["sentiment_score"].n,
        o["tools_used"].l,
        IF Has(o, "analysis") THEN o["analysis"] ELSE Null)

\* validate_risk_level never called
RiskLevelAllowed_Unchecked(m) == TRUE

\* validate_risk_level comparing without regard to case
RiskLevelAllowed_IgnoringCase(m) ==
    Upper(m.risk_level) \in {Upper(x) : x \in AllowedRiskLevels}

\* validate_risk_level: TRUE where it returns, FALSE where it raises ValueError
RiskLevelAllowed(m) == m.risk_level \in AllowedRiskLevels

\* lines 178-179: the asset is overwritten only when it differs from the
\* requested one after upper-casing both
NormalizeAsset(m, a) ==
    IF Upper(m.asset) # Upper(a) THEN [m EXCEPT !.asset = Upper(a)] ELSE m

\* model_dump(exclude_none=True): fields that are None left out
ModelDump_ExcludeNone(m) ==
    IF m.analysis = Null
    THEN [asset |-> m.asset, risk_level |-> m.risk_level,
          sentiment_score |-> m.sentiment_score, tools_used |-> m.tools_used]
    ELSE m

\* model_dump(): the dictionary of the five declared fields
ModelDump(m) ==
    [asset |-> m.asset, risk_level |-> m.risk_level,
     sentiment_score |-> m.sentiment_score, tools_used |-> m.tools_used,
     analysis |-> m.analysis]

\* lines 175-181 on the parsed document
ValidateDoc(doc, a) ==
    IF doc.t # "object"
    THEN Raised(Exc("TypeError", "argument after ** must be a mapping", {}, 0))
    ELSE IF FieldErrors(doc.o) # {}
    THEN Raised(Exc("ValidationError",
                    "validation errors for MarketResearchOutput",
                    FieldErrors(doc.o), 0))
    ELSE IF ~RiskLevelAllowed(Construct(doc.o))
    THEN Raised(Exc("ValueError", "Invalid risk_level", {}, 0))
    ELSE Returned(ModelDump(NormalizeAsset(Construct(doc.o), a)))

\* the slice of line 170 without the "+ 1": the closing brace is cut off
ExtractJson_DropsLastBrace(text) ==
    Slice(text, Find(text, LBrace), RFind(text, RBrace))

\* a fallback that starts at the last '{' instead of the first
ExtractJson_FromLastOpen(text) ==
    Slice(text, RFind(text, LBrace), RFind(text, RBrace) + 1)

\* the text the second json.loads is given (line 170)
ExtractJson(text) ==
    Slice(text, Find(text, LBrace), RFind(text, RBrace) + 1)

\* _parse_and_validate_output(output_text, asset)
ParseAndValidate(text, a) ==
    IF JsonLoads(text).ok
    THEN ValidateDoc(JsonLoads(text).doc, a)
    ELSE IF Find(text, LBrace) # -1 /\ RFind(text, RBrace) # -1
    THEN IF JsonLoads(ExtractJson(text)).ok
         THEN ValidateDoc(JsonLoads(ExtractJson(text)).doc, a)
         ELSE Raised(Exc("JSONDecodeError", "Expecting value", {}, 0))
    ELSE Raised(Exc("ValueError",
                    "Could not find valid JSON in agent output", {}, 0))

----------------------------------------------------------------------------
(* Inputs of the validator *)

Absent == JV("absent", 0, <<>>, <<>>)

FieldKeys == {"asset", "risk_level", "sentiment_score", "tools_used", "analysis"}

\* the object whose members are the given values, Absent ones left out
Obj(a, r, sc, tu, an) ==
    LET all == [asset |-> a, risk_level |-> r, sentiment_score |-> sc,
                tools_used |-> tu, analysis |-> an]
    IN  [k \in {x \in FieldKeys : all[x] # Absent} |-> all[k]]

PriceTool == "get_market_price"
SentimentTool == "get_internal_sentiment"

AssetGood == {Str(BTC), Str(btc), Str(ETH)}
AssetBad == {Absent, Num(1)}
RiskGood == {Str(Low), Str(Medium), Str(High), Str(low), Str(Invalid)}
RiskBad == {Absent, Num(1)}
ScoreGood == {Num(0), Num(50), Num(100)}
ScoreBad == {Absent, Num(-1), Num(101), Str(High)}
ToolsGood == {Arr(<<PriceTool>>)}
ToolsBad == {Absent, Str(<<"x">>)}
AnalysisGood == {Absent, Str(<<"o","k">>)}
AnalysisBad == {Num(1)}

\* objects without field errors (risk_level any string)
GoodObjects ==
    {Obj(a, r, sc, tu, an) :
        a \in AssetGood, r \in RiskGood, sc \in ScoreGood,
        tu \in ToolsGood, an \in AnalysisGood}

BaseBTC == Obj(Str(btc), Str(Low), Num(50), Arr(<<PriceTool>>), Absent)
BaseETH == Obj(Str(ETH), Str(Invalid), Num(100), Arr(<<>>), Null)

\* objects with one field missing, wrongly typed or out of range, and some
\* with a key the schema does not declare
BadObjects ==
    UNION {
        {[k \in (DOMAIN b) \ {"asset"} |-> b[k]], [b EXCEPT !["asset"] = Num(1)],
         [k \in (DOMAIN b) \ {"risk_level"} |-> b[k]],
         [b EXCEPT !["risk_level"] = Num(1)],
         [k \in (DOMAIN b) \ {"sentiment_score"} |-> b[k]],
         [b EXCEPT !["sentiment_score"] = Num(-1)],
         [b EXCEPT !["sentiment_score"] = Num(101)],
         [b EXCEPT !["sentiment_score"] = Str(High)],
         [k \in (DOMAIN b) \ {"tools_used"} |-> b[k]],
         [b EXCEPT !["tools_used"] = Str(<<"x">>)],
         [k \in (DOMAIN b) \cup {"analysis"} |->
             IF k = "analysis" THEN Num(1) ELSE b[k]]}
        : b \in {BaseBTC, BaseETH}}

ExtraKeyObjects ==
    {[k \in (DOMAIN b) \cup {"confidence"} |->
         IF k = "confidence" THEN Num(90) ELSE b[k]] : b \in {BaseBTC}}

Objects == GoodObjects \cup BadObjects \cup ExtraKeyObjects \cup {NoMembers}

\* bodies that are not one well-formed object
OtherBodies ==
    {<<>>, <<Word>>, <<NumLit>>, <<NullLit>>, <<StrLit>>,
     <<LBracket, RBracket>>, <<LBracket, NumLit, RBracket>>,
     <<LBrace>>, <<RBrace>>, <<RBrace, Word, LBrace>>,
     <<LBrace, Word, RBrace>>,
     ObjectText(BaseBTC) \o <<Word>> \o ObjectText(BaseBTC)}

Bodies == {ObjectText(o) : o \in Objects} \cup OtherBodies

\* prose: words and whitespace, no brace
ProseTokens == {Word, Space}

\* what may stand before and after a body
PrefixTokens == ProseTokens \cup {LBracket, LBrace}
SuffixTokens == ProseTokens \cup {RBracket, RBrace}

SeqsUpTo(S, n) == UNION {[1..k -> S] : k \in 0..n}

Prefixes == SeqsUpTo(PrefixTokens, MaxAffix)
Suffixes == SeqsUpTo(SuffixTokens, MaxAffix)

RequestedAssets == {BTC, eth}

----------------------------------------------------------------------------
(* The two tools of app/agent/tools.py.  Sampled numbers are integers in
   thousandths; numbers rounded to two decimals are integers in hundredths;
   the 24h volume is kept in whole dollars. *)

USDT == <<"U","S","D","T">>
usdt == <<"u","s","d","t">>
SOL == <<"S","O","L">>
Sol == <<"S","o","l">>
DOGE == <<"D","O","G","E">>
doge == <<"d","o","g","e">>

\* the dictionary mock_prices of GetMarketPriceTool.execute
mock_prices ==
    (BTC :> [base |-> 45000, volatility |-> "high"]) @@
    (ETH :> [base |-> 2500, volatility |-> "medium"]) @@
    (USDT :> [base |-> 1, volatility |-> "low"]) @@
    (SOL :> [base |-> 100, volatility |-> "high"])

\* the second argument of mock_prices.get: a default set that breaks the
\* documented one
DefaultBaseData_LikeSOL == [base |-> 100, volatility |-> "high"]

\* the second argument of mock_prices.get
DefaultBaseData == [base |-> 1000, volatility |-> "medium"]

\* dict.get(k, default)
DictGet(d, k, default) == IF k \in DOMAIN d THEN d[k] ELSE default

\* a lookup that forgets asset.upper()
BaseData_CaseSensitive(a) == DictGet(mock_prices, a, DefaultBaseData)

\* base_data = mock_prices.get(asset.upper(), {...})
BaseData(a) == DictGet(mock_prices, Upper(a), DefaultBaseData)

\* round(x, 2) of a value given in thousandths, in hundredths; a value that
\* ends in 5 thousandths stands for floats on either side of the tie
Round2(x) ==
    IF x % 10 = 5 THEN {x \div 10, x \div 10 + 1}
    ELSE IF x % 10 < 5 THEN {x \div 10}
    ELSE {x \div 10 + 1}

\* the values random.uniform(-base * 0.05, base * 0.05) is sampled at: both
\* ends, the middle, and the neighbours of the ends
PriceOffsets(base) ==
    {-(base * 50), -(base * 50) + 4, -(base * 50) + 5, 0,
     base * 50 - 5, base * 50 - 4, base * 50}

\* the three random.uniform draws of GetMarketPriceTool.execute
PriceSamples(a) ==
    [price : {BaseData(a).base * 1000 + d : d \in PriceOffsets(BaseData(a).base)},
     change : {-15000, -5, 15000},
     volume : {1000000, 50000000}]

\* the dictionaries GetMarketPriceTool.execute can return for draws u
PriceResults(a, u) ==
    {[asset |-> Upper(a),
      price_usd |-> p,
      change_24h_percent |-> c,
      volume_24h_usd |-> u.volume,
      volatility |-> BaseData(a).volatility] :
        p \in Round2(u.price), c \in Round2(u.change)}

\* thresholds compared with <= where the code compares with <
Classify_Inclusive(score) ==
    IF score <= 400 THEN [risk_level |-> High, market_outlook |-> "bearish"]
    ELSE IF score <= 600 THEN [risk_level |-> Medium, market_outlook |-> "neutral"]
    ELSE [risk_level |-> Low, market_outlook |-> "bullish"]

\* the if / elif / else over the sampled sentiment_score
Classify(score) ==
    IF score < 400 THEN [risk_level |-> High, market_outlook |-> "bearish"]
    ELSE IF score < 600 THEN [risk_level |-> Medium, market_outlook |-> "neutral"]
    ELSE [risk_level |-> Low, market_outlook |-> "bullish"]

\* random.uniform(0.3, 0.9) drawn far from the documented range
ScoreSamples_Wide == 0..1000

\* random.uniform(0.3, 0.9), every thousandth
ScoreSamples == 300..900

\* the four random.uniform draws of GetInternalSentimentTool.execute
SentimentSamples ==
    [score : ScoreSamples, social : {400, 950}, news : {300, 900},
     confidence : {700, 945}]

\* the dictionaries GetInternalSentimentTool.execute can return for draws u
SentimentResults(a, u) ==
    {[asset |-> Upper(a),
      sentiment_score |-> s,
      risk_level |-> Classify(u.score).risk_level,
      social_sentiment |-> so,
      news_sentiment |-> ne,
      market_outlook |-> Classify(u.score).market_outlook,
      confidence |-> co] :
        s \in Round2(u.score), so \in Round2(u.social),
        ne \in Round2(u.news), co \in Round2(u.confidence)}

\* asset arguments tried: listed and unlisted symbols in several casings
ToolAssets == {BTC, btc, ETH, eth, USDT, usdt, SOL, Sol, DOGE, doge}

\* the list AVAILABLE_TOOLS, each tool known by its name
AVAILABLE_TOOLS == <<PriceTool, SentimentTool>>

\* a lambda that reads the loop variable when called: every wrapper ends up
\* with the last tool of the registry
CapturedTool_LateBinding(i) == Len(AVAILABLE_TOOLS)

\* the default argument t=tool of the lambda written in pass i of the loop:
\* bound when the lambda is created, to the tool of that pass
CapturedTool(i) == i

\* _create_langchain_tools(): one wrapper per registered tool, with the
\* tool's name and the tool its lambda holds
langchain_tools ==
    [i \in 1..Len(AVAILABLE_TOOLS) |->
        [name |-> AVAILABLE_TOOLS[i], t |-> CapturedTool(i)]]

\* the draws and results of one execute call of the named tool
ExecuteRuns(tool, a) ==
    IF tool = PriceTool
    THEN UNION {{[sample |-> u, result |-> r] : r \in PriceResults(a, u)} :
                    u \in PriceSamples(a)}
    ELSE UNION {{[sample |-> u, result |-> r] : r \in SentimentResults(a, u)} :
                    u \in SentimentSamples}

\* a tool result as JSON members: strings for the symbol and the labels
\* (a lower-case label kept as one character group), numbers for the rest
ToJson(r) ==
    [k \in DOMAIN r |->
        IF k \in {"asset", "risk_level"} THEN Str(r[k])
        ELSE IF k \in {"volatility", "market_outlook"} THEN Str(<<r[k]>>)
        ELSE Num(r[k])]

\* json.dumps of a tool result
JsonDumps(r) == ObjectText(ToJson(r))

NoSample == [none |-> 0]

NoToolResult == [none |-> 0]

ToolsIdle ==
    /\ t_asset = <<>>
    /\ t_tool = ""
    /\ t_sample = NoSample
    /\ t_result = NoToolResult
    /\ t_exc = NoExc
    /\ t_wrapper = ""
    /\ t_returned = <<>>

----------------------------------------------------------------------------
(* MongoDBClient of app/db/mongodb.py *)

\* most log_execution calls made in one behaviour
MaxLogCalls == 3

\* what admin.command('ping') can raise
PingErrors ==
    {Exc("ConnectionFailure", "server not reachable", {}, 0),
     Exc("RuntimeError", "ping failed", {}, 0)}

\* what collection.insert_one can raise
InsertErrors ==
    {Exc("PyMongoError", "insert failed", {}, 0),
     Exc("InvalidDocument", "cannot encode object", {}, 0)}

\* is_available(): False without a client, otherwise whether the ping went
\* through; every Exception the ping raises is caught
IsAvailable(client, ping) ==
    /\ client = "client"
    /\ (ping = NoExc \/ ~IsInstance(ping.cls, "Exception"))

\* handlers that forget the final except Exception
LogCaught_PyMongoOnly(e) == IsInstance(e.cls, "PyMongoError")

\* the two except clauses of log_execution
LogCaught(e) == IsInstance(e.cls, "PyMongoError") \/ IsInstance(e.cls, "Exception")

\* the return value None, and str(result.inserted_id)
NoneId == [is_none |-> TRUE, id |-> 0]
DocId(n) == [is_none |-> FALSE, id |-> n]

\* the document log_execution builds (the fields that identify it)
Document(request_id, success) == [request_id |-> request_id, success |-> success]

\* one call of log_execution: what it returns or raises, whether insert_one
\* was called, and the collection afterwards
LogExecutionOutcome(client, ping, ins, coll, doc) ==
    IF ~IsAvailable(client, ping)
    THEN [ret |-> NoneId, exc |-> NoExc, attempted |-> FALSE, collection |-> coll]
    ELSE IF ins = NoExc
    THEN [ret |-> DocId(Len(coll) + 1), exc |-> NoExc, attempted |-> TRUE,
          collection |-> Append(coll, doc)]
    ELSE IF LogCaught(ins)
    THEN [ret |-> NoneId, exc |-> NoExc, attempted |-> TRUE, collection |-> coll]
    ELSE [ret |-> NoneId, exc |-> ins, attempted |-> TRUE, collection |-> coll]

NoLogCall ==
    [client |-> "unset", ping |-> NoExc, insert |-> NoExc, attempted |-> FALSE,
     ret |-> NoneId, exc |-> NoExc, before |-> 0]

MongoIdle ==
    /\ m_client = "unset"
    /\ m_collection = <<>>
    /\ m_last = NoLogCall
    /\ m_calls = 0

----------------------------------------------------------------------------
(* ResearchRepository of app/db/postgres.py over the tables of
   app/db/models.py *)

\* most repository calls made in one behaviour
MaxStoreCalls == 3

\* an asset symbol longer than the column takes
LongAsset == [i \in 1..21 |-> "A"]

DigitChars == <<"0", "1", "2", "3", "4", "5", "6", "7", "8", "9">>

\* str(x) of a float given in hundredths, 0 <= x < 10: "0.8", "0.72", "1.0"
StrOfFloat(n) ==
    <<DigitChars[(n \div 100) + 1], ".">> \o
    (IF n % 10 = 0 THEN <<DigitChars[((n % 100) \div 10) + 1]>>
     ELSE <<DigitChars[((n % 100) \div 10) + 1], DigitChars[(n % 10) + 1]>>)

\* the JSON text of a list of strings, and the list read back from it
DumpList(l) ==
    <<LBracket>> \o [i \in 1..Len(l) |-> [c |-> l[i], o |-> NoMembers]] \o <<RBracket>>
LoadList(text) == [i \in 1..(Len(text) - 2) |-> text[i + 1].c]

\* the JSON text of a dictionary, and the dictionary read back from it
DumpDict(o) == ObjectText(o)
LoadDict(text) == JsonLoads(text).doc.o

\* ResearchRequest(asset=asset) as the row the INSERT writes; ids count up
RequestRow(id, a) == [id |-> id, asset |-> a]

\* ResearchReport(...) as the row the INSERT writes: the score as str(float),
\* the two JSON columns as JSON text
ReportRow(id, args) ==
    [id |-> id, request_id |-> args.request_id, asset |-> args.asset,
     risk_level |-> args.risk_level,
     sentiment_score |-> StrOfFloat(args.sentiment_score),
     tools_used |-> DumpList(args.tools_used),
     report_data |-> DumpDict(args.report_data)]

\* the ResearchReport object loaded from a row
LoadReport(row) ==
    [id |-> row.id, request_id |-> row.request_id, asset |-> row.asset,
     risk_level |-> row.risk_level, sentiment_score |-> row.sentiment_score,
     tools_used |-> LoadList(row.tools_used),
     report_data |-> LoadDict(row.report_data)]

\* the column lengths String(20) and String(10) of the two tables
RequestRowFits(row) == Len(row.asset) <= 20
ReportRowFits(row) ==
    /\ Len(row.asset) <= 20
    /\ Len(row.risk_level) <= 20
    /\ Len(row.sentiment_score) <= 10

\* where the server can fail a call: nowhere, at the INSERT / COMMIT, or at
\* the SELECT of session.refresh after the commit
Faults == {"none", "commit", "refresh"}

\* where the server may fail during get_report_by_request_id
QueryFaults == {"none", "query"}

\* a session closed at the end of the try block, after the work succeeded
SessionAfter_ClosedOnReturnOnly(exc) == IF exc = NoExc THEN "closed" ELSE "open"

\* finally: session.close() -- the state of the session when the call ends,
\* whether it returns or raises exc
SessionAfter(exc) == "closed"

\* a rollback that leaves the written row in the table
RolledBack_KeepsWrite(before, written) == written

\* session.rollback(): the table as it was before the transaction
RolledBack(before, written) == before

\* add, commit, refresh and the handlers of create_request / create_report for
\* one row: the table afterwards, whether the write failed, and what is raised
CreateOutcome(before, row, fits, fault) ==
    IF ~fits
    THEN [rows |-> RolledBack(before, Append(before, row)), write_failed |-> TRUE,
          exc |-> Exc("DataError", "value too long for type character varying", {}, 0)]
    ELSE IF fault = "commit"
    THEN [rows |-> RolledBack(before, Append(before, row)), write_failed |-> TRUE,
          exc |-> Exc("OperationalError", "server closed the connection", {}, 0)]
    ELSE IF fault = "refresh"
    THEN [rows |-> Append(before, row), write_failed |-> FALSE,
          exc |-> Exc("OperationalError", "server closed the connection", {}, 0)]
    ELSE [rows |-> Append(before, row), write_failed |-> FALSE, exc |-> NoExc]

\* a query that filters on the report's own id
Matching_ById(rows, request_id) ==
    {i \in 1..Len(rows) : rows[i].id = request_id}

\* filter(ResearchReport.request_id == request_id): the matching rows
Matching(rows, request_id) ==
    {i \in 1..Len(rows) : rows[i].request_id = request_id}

\* the arguments of create_report tried
ReportArgs ==
    {[request_id |-> r, asset |-> x.asset, risk_level |-> x.risk_level,
      sentiment_score |-> x.sentiment_score, tools_used |-> x.tools_used,
      report_data |-> Obj(Str(x.asset), Str(x.risk_level), Num(x.sentiment_score),
                          Arr(x.tools_used), Null)] :
        r \in 1..2,
        x \in {[asset |-> BTC, risk_level |-> Low, sentiment_score |-> 80,
                tools_used |-> <<PriceTool, SentimentTool>>],
               [asset |-> ETH, risk_level |-> High, sentiment_score |-> 35,
                tools_used |-> <<>>],
               [asset |-> LongAsset, risk_level |-> Medium, sentiment_score |-> 50,
                tools_used |-> <<PriceTool>>]}}

NoReportArgs ==
    [request_id |-> 0, asset |-> <<>>, risk_level |-> <<>>, sentiment_score |-> 0,
     tools_used |-> <<>>, report_data |-> NoMembers]

NoReport == LoadReport(ReportRow(0, NoReportArgs))

NoStoreCall ==
    [op |-> "", request_id |-> 0, args |-> NoReportArgs, fault |-> "none",
     write_failed |-> FALSE, exc |-> NoExc, found |-> FALSE, report |-> NoReport,
     requests_before |-> <<>>, reports_before |-> <<>>]

StoreIdle ==
    /\ p_requests = <<>>
    /\ p_reports = <<>>
    /\ p_created = <<>>
    /\ p_last = NoStoreCall
    /\ p_calls = 0
    /\ p_sessions = <<>>

\* the harness before any serialised record was validated
RevalidationIdle ==
    /\ v_again = [rec |-> NoRec, exc |-> NoExc]
    /\ v_redone = FALSE

----------------------------------------------------------------------------
(* The validator run on one text *)

NoOutcome == [rec |-> NoRec, exc |-> NoExc]

\* placeholder for the result while research has not returned
NoResult ==
    [output |-> NoRec, agent_steps |-> <<>>, tool_calls |-> <<>>,
     execution_time_ms |-> 0, success |-> FALSE, error |-> NoExc]

ResearchIdle ==
    /\ pc = "idle"
    /\ asset = <<>>
    /\ max_retries = 0
    /\ attempt = 0
    /\ agent_steps = <<>>
    /\ tool_calls = <<>>
    /\ output_text = <<>>
    /\ result = NoResult
    /\ raised = NoExc
    /\ invocations = 0
    /\ last_steps = <<>>
    /\ driver_exc = NoExc
    /\ now = 0
    /\ start_time = 0
    /\ validations = 0
    /\ prompts = <<>>

\* the research calls that run at the same time on the one agent
CallIds == {1, 2}

\* a call that has not started
IdleCall ==
    [pc |-> "idle", result |-> NoResult, raised |-> NoExc,
     given_asset |-> <<>>, driver_steps |-> <<>>, failures |-> 0]

\* the parameters and local variables of research before the call
EmptyFrame ==
    [asset |-> <<>>, max_retries |-> 0, attempt |-> 0, start_time |-> 0,
     agent_steps |-> <<>>, tool_calls |-> <<>>]

ConcIdle ==
    /\ c_calls = [c \in CallIds |-> IdleCall]
    /\ c_frames = [c \in CallIds |-> EmptyFrame]
    /\ c_now = 0

ValidatorInit ==
    /\ v_prefix \in Prefixes
    /\ v_body \in Bodies
    /\ v_suffix \in Suffixes
    /\ v_asset \in RequestedAssets
    /\ v_out = NoOutcome
    /\ v_done = FALSE
    /\ RevalidationIdle
    /\ ResearchIdle
    /\ ToolsIdle
    /\ MongoIdle
    /\ StoreIdle
    /\ ConcIdle

\* one call _parse_and_validate_output(v_text, v_asset)
RunValidator ==
    /\ ~v_done
    /\ v_out' = ParseAndValidate(v_text, v_asset)
    /\ v_done' = TRUE
    /\ UNCHANGED <<v_prefix, v_body, v_suffix, v_asset, v_again, v_redone>>
    /\ UNCHANGED not_v_vars

\* json.dumps of a record research returns
Serialise(rec) ==
    ObjectText(Obj(Str(rec.asset), Str(rec.risk_level), Num(rec.sentiment_score),
                   Arr(rec.tools_used), rec.analysis))

\* the returned record serialised and given to the validator again, with the
\* same asset
Revalidate ==
    /\ v_done
    /\ ~v_redone
    /\ v_out.exc = NoExc
    /\ v_again' = ParseAndValidate(Serialise(v_out.rec), v_asset)
    /\ v_redone' = TRUE
    /\ UNCHANGED <<v_prefix, v_body, v_suffix, v_asset, v_out, v_done>>
    /\ UNCHANGED not_v_vars

ValidatorNext == RunValidator \/ Revalidate

ValidatorSpec == ValidatorInit /\ [][ValidatorNext]_vars

----------------------------------------------------------------------------
(* The reasoning driver, as research sees it *)

\* one intermediate step: the action (tool, tool_input, log) and the observation
Step(tool, input, log, obs) ==
    [tool |-> tool, tool_input |-> input, log |-> log, observation |-> obs]

ToolNames == {PriceTool, SentimentTool}

StepsOf(a) ==
    {Step(PriceTool, a, "Getting market price", "price data"),
     Step(SentimentTool, a, "Getting sentiment analysis", "sentiment data")}

\* the intermediate_steps lists a driver run may return for asset a
Traces(a) == SeqsUpTo(StepsOf(a), MaxSteps)

GoodBTC == Obj(Str(BTC), Str(Low), Num(80), Arr(<<PriceTool>>), Absent)
EchoLower == Obj(Str(btc), Str(Medium), Num(100), Arr(<<PriceTool>>), Str(<<"o","k">>))

\* the final texts a driver run may return
DriverTexts ==
    {ObjectText(GoodBTC),
     ObjectText(EchoLower),
     <<Word>> \o ObjectText(GoodBTC) \o <<Word>>,
     <<Word>>,
     <<LBrace, Word, RBrace>>,
     <<NullLit>>,
     ObjectText([k \in (DOMAIN GoodBTC) \ {"tools_used"} |-> GoodBTC[k]]),
     ObjectText([GoodBTC EXCEPT !["sentiment_score"] = Num(101)]),
     ObjectText([GoodBTC EXCEPT !["sentiment_score"] = Str(High)]),
     ObjectText([GoodBTC EXCEPT !["risk_level"] = Str(Invalid)])}

\* what agent_executor.invoke may return: the dictionary may lack either key
\* (a key that is absent is given the empty value here, which is never read)
DriverResult(hs, tr, ho, tx) ==
    [has_steps |-> hs, intermediate_steps |-> tr, has_output |-> ho, output |-> tx]

DriverResults(a) ==
    {DriverResult(TRUE, tr, TRUE, tx) : tr \in Traces(a), tx \in DriverTexts}
    \cup {DriverResult(FALSE, <<>>, TRUE, tx) : tx \in DriverTexts}
    \cup {DriverResult(TRUE, tr, FALSE, <<>>) : tr \in Traces(a)}
    \cup {DriverResult(FALSE, <<>>, FALSE, <<>>)}

\* what agent_executor.invoke may raise
DriverErrors ==
    {Exc("RuntimeError", "backend unavailable", {}, 0),
     Exc("ValidationError", "validation error inside the driver",
         {<<"driver", "internal">>}, 0)}

----------------------------------------------------------------------------
(* research(asset, max_retries) *)

ToolCall(step) ==
    [tool |-> step.tool, input |-> step.tool_input, output |-> step.observation]

\* a step entry that names the thought where the tool belongs
AgentStep_ThoughtAsAction(step) == [action |-> step.log, thought |-> step.log]

\* lines 118-121: the agent_steps entry of one step
AgentStep(step) == [action |-> step.tool, thought |-> step.log]

\* a loop that walks the steps of a driver result backwards
StepsToAppend_Reversed(res) ==
    IF res.has_steps
    THEN [i \in 1..Len(res.intermediate_steps) |->
             res.intermediate_steps[Len(res.intermediate_steps) + 1 - i]]
    ELSE <<>>

\* lines 110-121: the steps the loop appends for one driver result
StepsToAppend(res) ==
    IF res.has_steps THEN res.intermediate_steps ELSE <<>>

MapSeq(Op(_), sq) == [i \in 1..Len(sq) |-> Op(sq[i])]

\* line 123: result.get("output", "")
OutputOf(res) == IF res.has_output THEN res.output ELSE <<>>

\* the exception raised when the last attempt fails validation (line 143)
Exhausted(m, e) ==
    Exc("Exception",
        "Failed to generate valid output after <attempts> attempts: <cause>",
        e.errs, m)

\* a first handler written "except Exception": it catches everything
CaughtAsValidation_AnyException(e) == IsInstance(e.cls, "Exception")

\* a first handler written "except json.JSONDecodeError"
CaughtAsValidation_JsonOnly(e) == IsInstance(e.cls, "JSONDecodeError")

\* which exceptions the first handler (line 139) catches
CaughtAsValidation(e) == IsInstance(e.cls, "ValidationError")

\* a handler that never gives up
IsLastAttempt_Never(k, m) == FALSE

\* whether the handler at line 141 gives up
IsLastAttempt(k, m) == k = m - 1

ValidatorIdle ==
    /\ v_prefix = <<>>
    /\ v_body = <<>>
    /\ v_suffix = <<>>
    /\ v_asset = <<>>
    /\ v_out = NoOutcome
    /\ v_done = FALSE
    /\ RevalidationIdle

Init ==
    /\ ValidatorIdle
    /\ ResearchIdle
    /\ ToolsIdle
    /\ MongoIdle
    /\ StoreIdle
    /\ ConcIdle

\* a prompt that names one fixed asset
get_research_prompt_FixedAsset(a) ==
    [text |-> "Analyze the cryptocurrency asset: <asset> ...", asset |-> BTC]

\* get_research_prompt(asset): the fixed request text around the asset
get_research_prompt(a) ==
    [text |-> "Analyze the cryptocurrency asset: <asset> ...", asset |-> a]

\* how long one driver invocation can take, in seconds
Durations == {1, 2}

\* an elapsed time left in seconds
ElapsedMs_InSeconds(t0, t1) == t1 - t0

\* (time.time() - start_time) * 1000
ElapsedMs(t0, t1) == (t1 - t0) * 1000

\* lines 99-101: the call starts
Call(a, m) ==
    /\ pc = "idle"
    /\ asset' = a
    /\ max_retries' = m
    /\ attempt' = 0
    /\ agent_steps' = <<>>
    /\ tool_calls' = <<>>
    /\ start_time' = now
    /\ pc' = "loop"
    /\ UNCHANGED <<output_text, result, raised, invocations, last_steps, driver_exc,
                   now, validations, prompts>>
    /\ UNCHANGED not_r_vars

\* lines 103-108: the loop enters its body and invokes the driver
StartAttempt ==
    /\ pc = "loop"
    /\ attempt < max_retries
    /\ invocations < MaxRetries      \* the counter stays within the model's bound
    /\ invocations' = invocations + 1
    /\ prompts' = Append(prompts, get_research_prompt(asset))
    /\ pc' = "invoking"
    /\ UNCHANGED <<asset, max_retries, attempt, agent_steps, tool_calls,
                   output_text, result, raised, last_steps, driver_exc,
                   now, start_time, validations>>
    /\ UNCHANGED not_r_vars

\* line 150: the loop ends without a return or a raise
LoopExhausted ==
    /\ pc = "loop"
    /\ ~(attempt < max_retries)
    /\ raised' = Exc("Exception", "Research failed unexpectedly", {}, 0)
    /\ pc' = "raised"
    /\ UNCHANGED <<asset, max_retries, attempt, agent_steps, tool_calls,
                   output_text, result, invocations, last_steps, driver_exc,
                   now, start_time, validations, prompts>>
    /\ UNCHANGED not_r_vars

\* a loop that repeats the same attempt number
NextAttempt_Same(k) == k

\* the for statement of line 103 moving on to the next attempt
NextAttempt(k) == k + 1

\* lines 139-148: the handlers, for an exception e raised in the try block
Handle(e) ==
    IF CaughtAsValidation(e)
    THEN IF IsLastAttempt(attempt, max_retries)
         THEN /\ raised' = Exhausted(max_retries, e)
              /\ pc' = "raised"
              /\ UNCHANGED attempt
         ELSE /\ attempt' = NextAttempt(attempt)
              /\ pc' = "loop"
              /\ UNCHANGED raised
    ELSE /\ raised' = e
         /\ pc' = "raised"
         /\ UNCHANGED attempt

\* lines 108-137: the driver returns res; its steps are appended, its text
\* validated, and the call returns or the exception is handled
DriverReturn(res, d) ==
    /\ pc = "invoking"
    /\ now' = now + d
    /\ validations' = validations + 1
    /\ last_steps' = res.intermediate_steps
    /\ tool_calls' = tool_calls \o MapSeq(ToolCall, StepsToAppend(res))
    /\ agent_steps' = agent_steps \o MapSeq(AgentStep, StepsToAppend(res))
    /\ output_text' = OutputOf(res)
    /\ driver_exc' = NoExc
    /\ LET out == ParseAndValidate(OutputOf(res), asset) IN
       IF out.exc = NoExc
       THEN /\ result' = [output |-> out.rec, agent_steps |-> agent_steps',
                          tool_calls |-> tool_calls',
                          execution_time_ms |-> ElapsedMs(start_time, now'),
                          success |-> TRUE, error |-> NoExc]
            /\ pc' = "returned"
            /\ UNCHANGED <<attempt, raised>>
       ELSE /\ Handle(out.exc)
            /\ UNCHANGED result
    /\ UNCHANGED <<asset, max_retries, invocations, start_time, prompts>>
    /\ UNCHANGED not_r_vars

\* line 108 raises: the exception is handled
DriverRaise(e, d) ==
    /\ pc = "invoking"
    /\ now' = now + d
    /\ driver_exc' = e
    /\ Handle(e)
    /\ UNCHANGED <<asset, max_retries, agent_steps, tool_calls, output_text,
                   result, invocations, last_steps, start_time, validations,
                   prompts>>
    /\ UNCHANGED not_r_vars

Next ==
    \/ \E a \in RequestedAssets, m \in -1..MaxRetries : Call(a, m)
    \/ StartAttempt
    \/ LoopExhausted
    \/ \E res \in DriverResults(asset), d \in Durations : DriverReturn(res, d)
    \/ \E e \in DriverErrors, d \in Durations : DriverRaise(e, d)

Spec == Init /\ [][Next]_vars

\* the call runs on: research is ordinary sequential code, and every driver
\* invocation either returns or raises
LiveSpec == Spec /\ WF_vars(Next)

----------------------------------------------------------------------------
(* The tools called directly *)

ToolInit ==
    /\ t_asset \in ToolAssets
    /\ t_tool = ""
    /\ t_sample = NoSample
    /\ t_result = NoToolResult
    /\ t_exc = NoExc
    /\ t_wrapper = ""
    /\ t_returned = <<>>
    /\ ValidatorIdle
    /\ ResearchIdle
    /\ MongoIdle
    /\ StoreIdle
    /\ ConcIdle

\* GetMarketPriceTool.execute(t_asset)
PriceExecute ==
    /\ t_tool = ""
    /\ \E u \in PriceSamples(t_asset) :
          \E r \in PriceResults(t_asset, u) :
              /\ t_sample' = u
              /\ t_result' = r
    /\ t_tool' = PriceTool
    /\ t_exc' = NoExc
    /\ UNCHANGED <<t_asset, t_wrapper, t_returned, not_t_vars>>

\* GetInternalSentimentTool.execute(t_asset)
SentimentExecute ==
    /\ t_tool = ""
    /\ \E u \in SentimentSamples :
          \E r \in SentimentResults(t_asset, u) :
              /\ t_sample' = u
              /\ t_result' = r
    /\ t_tool' = SentimentTool
    /\ t_exc' = NoExc
    /\ UNCHANGED <<t_asset, t_wrapper, t_returned, not_t_vars>>

\* the LangChain wrapper of AVAILABLE_TOOLS[i] called with t_asset: its
\* lambda runs execute of the tool it holds and returns json.dumps of the
\* result
WrapperCall(i) ==
    LET t == AVAILABLE_TOOLS[langchain_tools[i].t] IN
    /\ t_tool = ""
    /\ \E run \in ExecuteRuns(t, t_asset) :
          /\ t_sample' = run.sample
          /\ t_result' = run.result
          /\ t_returned' = JsonDumps(run.result)
    /\ t_tool' = t
    /\ t_wrapper' = langchain_tools[i].name
    /\ t_exc' = NoExc
    /\ UNCHANGED <<t_asset, not_t_vars>>

ToolNext ==
    \/ PriceExecute
    \/ SentimentExecute
    \/ \E i \in 1..Len(langchain_tools) : WrapperCall(i)

ToolSpec == ToolInit /\ [][ToolNext]_vars

----------------------------------------------------------------------------
(* The document store client *)

MongoInit ==
    /\ MongoIdle
    /\ ValidatorIdle
    /\ ResearchIdle
    /\ ToolsIdle
    /\ StoreIdle
    /\ ConcIdle

\* __init__ and _connect: the client is kept when the first ping goes
\* through and reset to None otherwise
Connect(ping) ==
    /\ m_client = "unset"
    /\ m_client' = IF ping = NoExc THEN "client" ELSE "None"
    /\ UNCHANGED <<m_collection, m_last, m_calls, not_m_vars>>

\* log_execution(request_id, ..., success, ...) while the server answers the
\* ping with ping and the insert with ins
LogExecution(request_id, success, ping, ins) ==
    LET out == LogExecutionOutcome(m_client, ping, ins, m_collection,
                                   Document(request_id, success))
    IN  /\ m_client # "unset"
        /\ m_calls < MaxLogCalls
        /\ m_calls' = m_calls + 1
        /\ m_collection' = out.collection
        /\ m_last' = [client |-> m_client, ping |-> ping,
                      insert |-> IF out.attempted THEN ins ELSE NoExc,
                      attempted |-> out.attempted,
                      ret |-> out.ret, exc |-> out.exc,
                      before |-> Len(m_collection)]
        /\ UNCHANGED <<m_client, not_m_vars>>

MongoNext ==
    \/ \E ping \in {NoExc} \cup PingErrors : Connect(ping)
    \/ \E request_id \in 1..2, success \in BOOLEAN,
          ping \in {NoExc} \cup PingErrors, ins \in {NoExc} \cup InsertErrors :
            LogExecution(request_id, success, ping, ins)

MongoSpec == MongoInit /\ [][MongoNext]_vars

----------------------------------------------------------------------------
(* The relational store *)

StoreInit ==
    /\ StoreIdle
    /\ ConcIdle
    /\ ValidatorIdle
    /\ ResearchIdle
    /\ ToolsIdle
    /\ MongoIdle

\* create_request(a) while the server fails at fault
CreateRequest(a, fault) ==
    LET row == RequestRow(Len(p_requests) + 1, a)
        out == CreateOutcome(p_requests, row, RequestRowFits(row), fault)
    IN  /\ p_calls < MaxStoreCalls
        /\ p_calls' = p_calls + 1
        /\ p_requests' = out.rows
        /\ p_last' = [NoStoreCall EXCEPT
                         !.op = "create_request", !.fault = fault,
                         !.write_failed = out.write_failed, !.exc = out.exc,
                         !.requests_before = p_requests,
                         !.reports_before = p_reports]
        /\ p_sessions' = Append(p_sessions, SessionAfter(out.exc))
        /\ UNCHANGED <<p_reports, p_created, not_p_vars>>

\* create_report(args) while the server fails at fault
CreateReport(args, fault) ==
    LET row == ReportRow(Len(p_reports) + 1, args)
        out == CreateOutcome(p_reports, row, ReportRowFits(row), fault)
    IN  /\ p_calls < MaxStoreCalls
        /\ p_calls' = p_calls + 1
        /\ p_reports' = out.rows
        /\ p_created' = IF Len(out.rows) > Len(p_reports)
                        THEN Append(p_created, args) ELSE p_created
        /\ p_last' = [NoStoreCall EXCEPT
                         !.op = "create_report", !.args = args, !.fault = fault,
                         !.write_failed = out.write_failed, !.exc = out.exc,
                         !.report = IF out.exc = NoExc THEN LoadReport(row)
                                    ELSE NoReport,
                         !.requests_before = p_requests,
                         !.reports_before = p_reports]
        /\ p_sessions' = Append(p_sessions, SessionAfter(out.exc))
        /\ UNCHANGED <<p_requests, not_p_vars>>

\* get_report_by_request_id(request_id) while the server fails at fault:
\* first() of a query without an ORDER BY returns any one of the matching
\* rows, None when there is none; a failing query raises through the finally
GetReport(request_id, fault) ==
    /\ p_calls < MaxStoreCalls
    /\ p_calls' = p_calls + 1
    /\ \/ /\ fault = "query"
          /\ p_last' = [NoStoreCall EXCEPT
                           !.op = "get_report", !.request_id = request_id,
                           !.fault = fault,
                           !.exc = Exc("OperationalError",
                                       "server closed the connection", {}, 0),
                           !.requests_before = p_requests,
                           !.reports_before = p_reports]
       \/ /\ fault = "none"
          /\ Matching(p_reports, request_id) = {}
          /\ p_last' = [NoStoreCall EXCEPT
                           !.op = "get_report", !.request_id = request_id,
                           !.requests_before = p_requests,
                           !.reports_before = p_reports]
       \/ /\ fault = "none"
          /\ \E i \in Matching(p_reports, request_id) :
                p_last' = [NoStoreCall EXCEPT
                              !.op = "get_report", !.request_id = request_id,
                              !.found = TRUE, !.report = LoadReport(p_reports[i]),
                              !.requests_before = p_requests,
                              !.reports_before = p_reports]
    /\ p_sessions' = Append(p_sessions, SessionAfter(p_last'.exc))
    /\ UNCHANGED <<p_requests, p_reports, p_created, not_p_vars>>

StoreNext ==
    \/ \E a \in {BTC, LongAsset}, fault \in Faults : CreateRequest(a, fault)
    \/ \E args \in ReportArgs, fault \in Faults : CreateReport(args, fault)
    \/ \E request_id \in 1..2, fault \in QueryFaults : GetReport(request_id, fault)

StoreSpec == StoreInit /\ [][StoreNext]_vars

----------------------------------------------------------------------------
(* research called concurrently on the one MarketResearchAgent *)

\* lists and counters kept on the agent object, which every call shares
Frame_OnInstance(c) == 1

\* lines 88-103: asset, max_retries, start_time, agent_steps, tool_calls and
\* attempt are parameters and local variables, so each call has its own frame
Frame(c) == c

GoodETH == Obj(Str(ETH), Str(Medium), Num(50), Arr(<<SentimentTool>>), Absent)

\* what the shared agent_executor may return to an invocation for asset a
ConcResults(a) ==
    {DriverResult(TRUE, tr, TRUE, tx) :
        tr \in SeqsUpTo(StepsOf(a), 1),
        tx \in {ObjectText(GoodBTC), ObjectText(GoodETH),
                ObjectText([GoodBTC EXCEPT !["sentiment_score"] = Num(101)])}}

ConcInit ==
    /\ ConcIdle
    /\ ValidatorIdle
    /\ ResearchIdle
    /\ ToolsIdle
    /\ MongoIdle
    /\ StoreIdle

\* lines 99-101: call c starts
ConcCall(c, a, m) ==
    /\ c_calls[c].pc = "idle"
    /\ c_frames' = [c_frames EXCEPT ![Frame(c)] =
                       [asset |-> a, max_retries |-> m, attempt |-> 0,
                        start_time |-> c_now,
                        agent_steps |-> <<>>, tool_calls |-> <<>>]]
    /\ c_calls' = [c_calls EXCEPT ![c] =
                      [@ EXCEPT !.pc = "loop", !.given_asset = a]]
    /\ UNCHANGED c_now
    /\ UNCHANGED not_c_vars

\* lines 103-108: call c enters the loop body and invokes the driver
ConcStartAttempt(c) ==
    /\ c_calls[c].pc = "loop"
    /\ c_frames[Frame(c)].attempt < c_frames[Frame(c)].max_retries
    /\ c_calls' = [c_calls EXCEPT ![c].pc = "invoking"]
    /\ UNCHANGED <<c_frames, c_now>>
    /\ UNCHANGED not_c_vars

\* line 150: the loop of call c ends without a return or a raise
ConcLoopExhausted(c) ==
    /\ c_calls[c].pc = "loop"
    /\ ~(c_frames[Frame(c)].attempt < c_frames[Frame(c)].max_retries)
    /\ c_calls' = [c_calls EXCEPT ![c] =
                      [@ EXCEPT !.pc = "raised",
                                !.raised = Exc("Exception",
                                               "Research failed unexpectedly",
                                               {}, 0)]]
    /\ UNCHANGED <<c_frames, c_now>>
    /\ UNCHANGED not_c_vars

\* lines 139-148 for call c: the handlers, for an exception e raised in the
\* try block
ConcHandle(c, e) ==
    LET f == c_frames[Frame(c)] IN
    IF CaughtAsValidation(e)
    THEN IF IsLastAttempt(f.attempt, f.max_retries)
         THEN /\ c_calls' = [c_calls EXCEPT ![c] =
                                [@ EXCEPT !.pc = "raised",
                                          !.raised = Exhausted(f.max_retries, e)]]
              /\ UNCHANGED c_frames
         ELSE /\ c_calls' = [c_calls EXCEPT ![c] =
                                [@ EXCEPT !.pc = "loop", !.failures = @ + 1]]
              /\ c_frames' = [c_frames EXCEPT ![Frame(c)].attempt = NextAttempt(@)]
    ELSE /\ c_calls' = [c_calls EXCEPT ![c] =
                           [@ EXCEPT !.pc = "raised", !.raised = e]]
         /\ UNCHANGED c_frames

\* lines 108-137 for call c: the driver returns res; its steps are appended,
\* its text validated, and the call returns or the exception is handled
\* (the clock moves on by one second with every invocation)
ConcDriverReturn(c, res) ==
    /\ c_calls[c].pc = "invoking"
    /\ c_now' = c_now + 1
    /\ LET f == c_frames[Frame(c)]
           appended == [f EXCEPT
                           !.agent_steps = @ \o MapSeq(AgentStep, StepsToAppend(res)),
                           !.tool_calls = @ \o MapSeq(ToolCall, StepsToAppend(res))]
           out == ParseAndValidate(OutputOf(res), f.asset)
           heard == [c_calls EXCEPT ![c].driver_steps = @ \o StepsToAppend(res)]
       IN IF out.exc = NoExc
          THEN /\ c_frames' = [c_frames EXCEPT ![Frame(c)] = appended]
               /\ c_calls' = [heard EXCEPT ![c] =
                                 [@ EXCEPT !.pc = "returned",
                                           !.result =
                                     [output |-> out.rec,
                                      agent_steps |-> appended.agent_steps,
                                      tool_calls |-> appended.tool_calls,
                                      execution_time_ms |->
                                          ElapsedMs(f.start_time, c_now'),
                                      success |-> TRUE, error |-> NoExc]]]
          ELSE IF CaughtAsValidation(out.exc)
                  /\ ~IsLastAttempt(f.attempt, f.max_retries)
               THEN /\ c_frames' = [c_frames EXCEPT ![Frame(c)] =
                                       [appended EXCEPT !.attempt = NextAttempt(@)]]
                    /\ c_calls' = [heard EXCEPT ![c] =
                                      [@ EXCEPT !.pc = "loop", !.failures = @ + 1]]
               ELSE /\ c_frames' = [c_frames EXCEPT ![Frame(c)] = appended]
                    /\ c_calls' = [heard EXCEPT ![c] =
                                      [@ EXCEPT !.pc = "raised",
                                                !.raised =
                                          IF CaughtAsValidation(out.exc)
                                          THEN Exhausted(f.max_retries, out.exc)
                                          ELSE out.exc]]
    /\ UNCHANGED not_c_vars

\* line 108 raises in call c: the exception is handled
ConcDriverRaise(c, e) ==
    /\ c_calls[c].pc = "invoking"
    /\ c_now' = c_now + 1
    /\ ConcHandle(c, e)
    /\ UNCHANGED not_c_vars

ConcNext ==
    \/ \E c \in CallIds, a \in RequestedAssets, m \in 0..MaxRetries : ConcCall(c, a, m)
    \/ \E c \in CallIds : ConcStartAttempt(c)
    \/ \E c \in CallIds : ConcLoopExhausted(c)
    \/ \E c \in CallIds :
          \E res \in ConcResults(c_frames[Frame(c)].asset) : ConcDriverReturn(c, res)
    \/ \E c \in CallIds, e \in DriverErrors : ConcDriverRaise(c, e)

ConcSpec == ConcInit /\ [][ConcNext]_vars

----------------------------------------------------------------------------
(* Vocabulary of the properties *)

\* prose without braces: words and whitespace only
IsProse(sq) == \A i \in 1..Len(sq) : sq[i] \in ProseTokens

\* objects that satisfy the whole schema: no field error, risk level allowed
SchemaValid(o) ==
    /\ FieldErrors(o) = {}
    /\ o["risk_level"].s \in AllowedRiskLevels

\* the validator harness was given a schema-valid object, bare or in prose
GivenValidObject ==
    /\ IsProse(v_prefix)
    /\ IsProse(v_suffix)
    /\ \E o \in Objects : SchemaValid(o) /\ v_body = ObjectText(o)

\* the text holds no JSON document, as a whole or between its outer braces
NoValidJson(text) ==
    /\ ~JsonLoads(text).ok
    /\ \/ Find(text, LBrace) = -1
       \/ RFind(text, RBrace) = -1
       \/ ~JsonLoads(ExtractJson(text)).ok

\* the latest attempt of research ended with the validator rejecting the
\* driver's text and the call failing
FailedOnValidation ==
    /\ pc = "raised"
    /\ invocations >= 1
    /\ driver_exc = NoExc

ExhaustedMessage ==
    "Failed to generate valid output after <attempts> attempts: <cause>"

----------------------------------------------------------------------------
(* C1 *)

\* C1: for every requested asset and every output that is a schema-valid
\* JSON object (risk_level in Low/Medium/High, 0 <= sentiment_score <= 1),
\* the validator accepts and the returned asset is the upper-cased
\* requested asset, whatever asset the model emitted.
C1_AssetIsCanonical ==
    (v_done /\ GivenValidObject)
        => (v_out.exc = NoExc /\ v_out.rec.asset = Upper(v_asset))

----------------------------------------------------------------------------
(* C2 *)

\* C2: a parse error is recoverable by retry: research fails on a text
\* holding no valid JSON only when that text came from the last permitted
\* attempt; on an earlier attempt the loop goes on to the next invocation.
C2_ParseErrorRetried ==
    (FailedOnValidation /\ NoValidJson(output_text))
        => invocations = max_retries

----------------------------------------------------------------------------
(* C3 *)

\* C3: when the validator has failed on attempt max_retries, research has
\* failed after exactly max_retries driver invocations with the message
\* "Failed to generate valid output after <max_retries> attempts: <last
\* validation error>", also when the failing text is unparseable.
C3_ExhaustedMessage ==
    (FailedOnValidation /\ invocations = max_retries)
        => /\ raised.msg = ExhaustedMessage
           /\ raised.attempts = max_retries
           /\ raised.errs = ParseAndValidate(output_text, asset).exc.errs

----------------------------------------------------------------------------
(* C4 *)

\* C4: when research returns, agent_steps and tool_calls of the result are
\* exactly the steps of the successful attempt's reasoning run; no step of
\* a failed attempt is in the result.
C4_OnlyWinningTrace ==
    pc = "returned"
        => /\ result.tool_calls = MapSeq(ToolCall, last_steps)
           /\ result.agent_steps = MapSeq(AgentStep, last_steps)

----------------------------------------------------------------------------
(* C5 *)

\* C5: once the driver raises a non-validation error on some attempt,
\* research has failed terminally with that same error and the driver has
\* been invoked no more often than up to that attempt, whatever retry
\* budget remains.
C5_DriverErrorIsTerminal ==
    (driver_exc # NoExc /\ ~IsInstance(driver_exc.cls, "ValidationError"))
        => /\ pc = "raised"
           /\ raised = driver_exc
           /\ invocations = attempt + 1

\* a driver error on the first of two permitted attempts ended the call
C5_Witness ==
    /\ pc = "raised"
    /\ driver_exc.cls = "RuntimeError"
    /\ raised = driver_exc
    /\ invocations = 1
    /\ max_retries = 2

----------------------------------------------------------------------------
(* C6 *)

\* the driver's text is a JSON object with a missing required field, a
\* wrongly typed field or a sentiment_score outside [0,1]
SchemaViolation(text) ==
    ParseAndValidate(text, asset).exc.cls = "ValidationError"

\* C6: a schema violation (missing required field, wrongly typed field,
\* sentiment_score outside [0,1]) on an attempt before the last one does
\* not fail the call: the loop moves to the next attempt, which invokes the
\* driver afresh.
C6_SchemaViolationRetried ==
    [][(/\ pc = "invoking"
        /\ pc' # "invoking"
        /\ driver_exc' = NoExc
        /\ SchemaViolation(output_text')
        /\ attempt < max_retries - 1)
       => (/\ pc' = "loop"
           /\ attempt' = attempt + 1
           /\ attempt' < max_retries
           /\ raised' = NoExc)]_vars

\* the second driver invocation is under way after a schema violation on
\* the first attempt
C6_Witness ==
    /\ pc = "invoking"
    /\ invocations = 2
    /\ attempt = 1
    /\ driver_exc = NoExc
    /\ SchemaViolation(output_text)

----------------------------------------------------------------------------
(* C7 *)

\* the text is a well-formed JSON object without field errors whose
\* risk_level is not one of Low, Medium, High
UnlistedRiskLevel(text) ==
    /\ JsonLoads(text).ok
    /\ JsonLoads(text).doc.t = "object"
    /\ FieldErrors(JsonLoads(text).doc.o) = {}
    /\ JsonLoads(text).doc.o["risk_level"].s \notin AllowedRiskLevels

\* C7: a risk_level outside Low/Medium/High is a recoverable schema
\* violation: research fails on such a text only on the last permitted
\* attempt, and then with the exhausted-retries failure.
C7_UnlistedRiskRetried ==
    (FailedOnValidation /\ UnlistedRiskLevel(output_text))
        => /\ invocations = max_retries
           /\ raised.msg = ExhaustedMessage

----------------------------------------------------------------------------
(* C8 *)

\* the harness text holds an object (bare or inside anything else) whose
\* sentiment_score is a number outside [0,1] or whose risk_level is a string
\* other than Low, Medium, High
GivenOutOfRange ==
    \E o \in Objects :
        /\ v_body = ObjectText(o)
        /\ \/ /\ Has(o, "sentiment_score")
              /\ o["sentiment_score"].t = "number"
              /\ (o["sentiment_score"].n < ScoreMin \/ o["sentiment_score"].n > ScoreMax)
           \/ /\ Has(o, "risk_level")
              /\ o["risk_level"].t = "string"
              /\ o["risk_level"].s \notin {Low, Medium, High}

\* C8: the validator never returns a record whose sentiment_score is outside
\* [0,1] or whose risk_level is not exactly Low, Medium or High, and every
\* output carrying such a value is rejected with an error, pure JSON or not.
C8_NeverOutOfRange ==
    v_done
        => /\ v_out.exc = NoExc
                => /\ v_out.rec.sentiment_score >= 0
                   /\ v_out.rec.sentiment_score <= 100
                   /\ v_out.rec.risk_level \in {Low, Medium, High}
           /\ GivenOutOfRange => v_out.exc # NoExc

\* an object with sentiment_score 1.01 and risk_level "low", wrapped in
\* prose, was rejected
C8_Witness ==
    /\ v_done
    /\ v_prefix = <<Word>>
    /\ \E o \in Objects :
          /\ v_body = ObjectText(o)
          /\ FieldErrors(o) = {<<"sentiment_score", "less_than_equal">>}
    /\ v_out.exc.cls = "ValidationError"

----------------------------------------------------------------------------
(* C9 *)

\* C9: for a text prefix + J + suffix with J a schema-valid object and
\* prefix, suffix prose without braces, the validator returns the record it
\* returns for J alone.
C9_ProseWrappedSameRecord ==
    (v_done /\ GivenValidObject)
        => /\ v_out.exc = NoExc
           /\ v_out = ParseAndValidate(v_body, v_asset)

\* an object between a word and a word was accepted
C9_Witness ==
    /\ v_done
    /\ GivenValidObject
    /\ v_prefix = <<Word>>
    /\ v_suffix = <<Word>>
    /\ v_out.exc = NoExc

----------------------------------------------------------------------------
(* C10 *)

HasBrace(text) == \E i \in 1..Len(text) : text[i] \in {LBrace, RBrace}

\* C10: every text without '{' and '}' is rejected with the ValueError that
\* says no valid JSON was found, and with no other exception, also when the
\* text is a JSON number, string, null or array.
C10_BraceFreeIsParseError ==
    (v_done /\ ~HasBrace(v_text))
        => /\ v_out.exc.cls = "ValueError"
           /\ v_out.exc.msg = "Could not find valid JSON in agent output"

----------------------------------------------------------------------------
(* C11 *)

\* the driver returned in this step (the attempt went from invoking the
\* driver to its outcome without the driver raising)
DriverReturned ==
    /\ pc = "invoking"
    /\ pc' # "invoking"
    /\ driver_exc' = NoExc

\* C11: every step in which the driver returns extends tool_calls and
\* agent_steps by exactly that run's intermediate steps, in the order the
\* driver returned them: the i-th new tool_calls entry has the i-th step's
\* tool, its tool_input as input and its observation as output, and the i-th
\* new agent_steps entry has its tool as action and its log as thought
C11_StepsInDriverOrder ==
    [][DriverReturned =>
        /\ Len(tool_calls') = Len(tool_calls) + Len(last_steps')
        /\ Len(agent_steps') = Len(agent_steps) + Len(last_steps')
        /\ \A i \in 1..Len(last_steps') :
              /\ tool_calls'[Len(tool_calls) + i].tool = last_steps'[i].tool
              /\ tool_calls'[Len(tool_calls) + i].input = last_steps'[i].tool_input
              /\ tool_calls'[Len(tool_calls) + i].output = last_steps'[i].observation
              /\ agent_steps'[Len(agent_steps) + i].action = last_steps'[i].tool
              /\ agent_steps'[Len(agent_steps) + i].thought = last_steps'[i].log
        /\ \A i \in 1..Len(tool_calls) : tool_calls'[i] = tool_calls[i]
        /\ \A i \in 1..Len(agent_steps) : agent_steps'[i] = agent_steps[i]]_vars

\* research returned after one run whose steps were get_market_price and
\* then get_internal_sentiment, and reports them in that order
C11_Witness ==
    /\ pc = "returned"
    /\ invocations = 1
    /\ Len(last_steps) = 2
    /\ last_steps[1].tool = PriceTool
    /\ last_steps[2].tool = SentimentTool
    /\ Len(result.tool_calls) = 2
    /\ result.tool_calls[1].tool = PriceTool
    /\ result.tool_calls[2].tool = SentimentTool

----------------------------------------------------------------------------
(* C12 *)

\* C12: whenever a record the validator returned has been serialised to JSON
\* and validated again with the same asset, the second validation succeeded
\* and returned the same record
C12_ValidationIdempotent ==
    v_redone =>
        /\ v_again.exc = NoExc
        /\ v_again.rec = v_out.rec

\* a record extracted from prose, whose asset was overwritten with the
\* requested one and whose analysis defaulted to None, was validated again
C12_Witness ==
    /\ v_redone
    /\ v_prefix # <<>>
    /\ v_out.rec.asset = ETH
    /\ v_asset = eth
    /\ v_body = ObjectText(BaseBTC)
    /\ v_out.rec.analysis = Null
    /\ v_again.rec = v_out.rec

----------------------------------------------------------------------------
(* C13 *)

\* C13: whenever research has returned, the result has success = True, no
\* error, and an output that is the record the validator returned for the
\* text of the last attempt, with risk_level one of Low, Medium, High and
\* 0 <= sentiment_score <= 1; while it has not returned there is no result
C13_ReturnsOnlyValidated ==
    /\ pc = "returned" =>
        /\ result.success = TRUE
        /\ result.error = NoExc
        /\ ParseAndValidate(output_text, asset) =
               [rec |-> result.output, exc |-> NoExc]
        /\ result.output.risk_level \in {Low, Medium, High}
        /\ result.output.sentiment_score >= ScoreMin
        /\ result.output.sentiment_score <= ScoreMax
    /\ pc # "returned" => result = NoResult

\* research returned on its second attempt, after a rejected first one
C13_Witness ==
    /\ pc = "returned"
    /\ invocations = 2
    /\ result.success = TRUE
    /\ result.output.risk_level \in {Low, Medium, High}

----------------------------------------------------------------------------
(* C14 *)

\* the names of a list, as a set
Names(sq) == {sq[i] : i \in 1..Len(sq)}

\* the tools invoked according to a tool_calls list
Invoked(calls) == {calls[i].tool : i \in 1..Len(calls)}

\* the members of the JSON object the validator reads from a text
EmittedMembers(text) ==
    IF JsonLoads(text).ok THEN JsonLoads(text).doc.o
    ELSE JsonLoads(ExtractJson(text)).doc.o

\* C14 as stated: in every successful result, output.tools_used names the
\* tools that tool_calls shows as invoked, and is empty when none was
C14_ToolsUsedMatchCalls ==
    pc = "returned" =>
        /\ Names(result.output.tools_used) = Invoked(result.tool_calls)
        /\ (result.tool_calls = <<>> => result.output.tools_used = <<>>)

\* C14, amended: in every successful result, output.tools_used is the
\* tools_used list of the JSON object in the driver's final text, whatever
\* tool_calls holds
C14_ToolsUsedAsEmitted ==
    pc = "returned" =>
        result.output.tools_used = EmittedMembers(output_text)["tools_used"].l

\* research returned a record that names get_market_price as used although
\* no tool was invoked
C14_Witness ==
    /\ pc = "returned"
    /\ invocations = 1
    /\ result.tool_calls = <<>>
    /\ result.output.tools_used = <<PriceTool>>

----------------------------------------------------------------------------
(* C15 *)

\* research failed for another reason than the validator rejecting the text
\* of the last permitted attempt
FailedOtherwise ==
    /\ pc = "raised"
    /\ ~(FailedOnValidation /\ invocations = max_retries)

\* C15: every failure of research other than exhausted retries (a driver
\* error on attempt k, for one) carries the message of the exhausted-retries
\* failure, "Failed to generate valid output after <attempts> attempts:
\* <cause>", with the number of attempts made
C15_OtherFailuresNameAttempt ==
    FailedOtherwise =>
        /\ raised.msg = ExhaustedMessage
        /\ raised.attempts = invocations

----------------------------------------------------------------------------
(* C16 *)

\* C16: log_execution never raises; with the client absent or the ping
\* failing it returns None without calling insert_one; when insert_one raises
\* it returns None; it returns a document id only when insert_one succeeded,
\* and then the id is that of the stored document
C16_LogExecutionNeverRaises ==
    /\ m_last.exc = NoExc
    /\ m_calls >= 1 =>
        /\ (m_last.client # "client" \/ m_last.ping # NoExc) =>
               (m_last.ret = NoneId /\ ~m_last.attempted)
        /\ (m_last.attempted /\ m_last.insert # NoExc) =>
               (m_last.ret = NoneId /\ Len(m_collection) = m_last.before)
        /\ ~m_last.ret.is_none <=>
               (m_last.client = "client" /\ m_last.ping = NoExc
                /\ m_last.attempted /\ m_last.insert = NoExc)
        /\ ~m_last.ret.is_none =>
               (m_last.ret.id = Len(m_collection)
                /\ Len(m_collection) = m_last.before + 1)

\* after one stored log, a second call whose insert raised an error outside
\* the driver's own hierarchy returned None
C16_Witness ==
    /\ m_calls = 2
    /\ Len(m_collection) = 1
    /\ m_last.attempted
    /\ m_last.insert.cls = "InvalidDocument"
    /\ m_last.ret = NoneId
    /\ m_last.exc = NoExc

----------------------------------------------------------------------------
(* C17 *)

\* the symbols mock_prices lists
ListedAssets == {BTC, ETH, USDT, SOL}

\* C17: for every non-empty asset string, execute of either tool returns a
\* dictionary and raises nothing; for an asset that is, in upper case, none
\* of BTC, ETH, USDT, SOL the price tool reports volatility "medium" and a
\* price within 5% of 1000 (950.00 to 1050.00)
C17_UnlistedAssetGetsDefault ==
    /\ t_asset # <<>>
    /\ t_exc = NoExc
    /\ t_tool # "" => t_result # NoToolResult
    /\ (t_tool = PriceTool /\ Upper(t_asset) \notin ListedAssets) =>
        /\ t_result.volatility = "medium"
        /\ t_result.price_usd >= 95000
        /\ t_result.price_usd <= 105000

\* the price tool answered for the unlisted asset "doge" at the upper end
\* of the default range
C17_Witness ==
    /\ t_tool = PriceTool
    /\ t_asset = doge
    /\ t_result.asset = DOGE
    /\ t_result.volatility = "medium"
    /\ t_result.price_usd = 105000

----------------------------------------------------------------------------
(* C18 *)

\* the parameter set of the symbol an asset string spells, whatever its case
ParamsOfSymbol(a) ==
    IF Upper(a) \in DOMAIN mock_prices THEN mock_prices[Upper(a)]
    ELSE [base |-> 1000, volatility |-> "medium"]

\* C18: both tools report the upper-cased input as asset, and the price tool
\* uses the parameter set of that symbol for any casing of the input: its
\* volatility, and a price within 5% of its base
C18_CaseInsensitive ==
    /\ t_tool # "" => t_result.asset = Upper(t_asset)
    /\ t_tool = PriceTool =>
        /\ t_result.volatility = ParamsOfSymbol(t_asset).volatility
        /\ t_result.price_usd >= ParamsOfSymbol(t_asset).base * 95
        /\ t_result.price_usd <= ParamsOfSymbol(t_asset).base * 105

\* the price tool answered for "eth" with asset "ETH", ETH's volatility and
\* a price at the lower end of ETH's range
C18_Witness ==
    /\ t_tool = PriceTool
    /\ t_asset = eth
    /\ t_result.asset = ETH
    /\ t_result.volatility = "medium"
    /\ t_result.price_usd = 237500

----------------------------------------------------------------------------
(* C19 *)

\* risk_level and market_outlook of the latest result are r and o
Reports(r, o) ==
    /\ t_result.risk_level = r
    /\ t_result.market_outlook = o

\* C19 as stated: in every result of the sentiment tool, risk_level and
\* market_outlook agree with the reported (rounded) sentiment_score: below
\* 0.4 High/bearish, from 0.4 to below 0.6 Medium/neutral, from 0.6 Low/bullish
C19_AgreesWithReportedScore ==
    t_tool = SentimentTool =>
        /\ t_result.sentiment_score < 40 => Reports(High, "bearish")
        /\ (t_result.sentiment_score >= 40 /\ t_result.sentiment_score < 60) =>
               Reports(Medium, "neutral")
        /\ t_result.sentiment_score >= 60 => Reports(Low, "bullish")

\* C19, amended: risk_level and market_outlook agree with the sampled score
\* before rounding, and the reported score is that sample rounded to two
\* decimals; so a reported score other than 0.40 and 0.60 falls in the band
\* of its labels, a reported 0.40 comes with High/bearish or Medium/neutral
\* and a reported 0.60 with Medium/neutral or Low/bullish
C19_AgreesWithSampledScore ==
    t_tool = SentimentTool =>
        /\ t_sample.score < 400 => Reports(High, "bearish")
        /\ (t_sample.score >= 400 /\ t_sample.score < 600) =>
               Reports(Medium, "neutral")
        /\ t_sample.score >= 600 => Reports(Low, "bullish")
        /\ t_result.sentiment_score * 10 - t_sample.score \in -5..5
        /\ t_result.sentiment_score < 40 => Reports(High, "bearish")
        /\ (t_result.sentiment_score > 40 /\ t_result.sentiment_score < 60) =>
               Reports(Medium, "neutral")
        /\ t_result.sentiment_score > 60 => Reports(Low, "bullish")
        /\ t_result.sentiment_score = 40 =>
               (Reports(High, "bearish") \/ Reports(Medium, "neutral"))
        /\ t_result.sentiment_score = 60 =>
               (Reports(Medium, "neutral") \/ Reports(Low, "bullish"))

\* a sample just below 0.4 was reported as 0.40 together with High/bearish
C19_Witness ==
    /\ t_tool = SentimentTool
    /\ t_sample.score = 397
    /\ t_result.sentiment_score = 40
    /\ Reports(High, "bearish")

----------------------------------------------------------------------------
(* C20 *)

\* C20: every result of the sentiment tool has exactly the keys asset,
\* sentiment_score, risk_level, social_sentiment, news_sentiment,
\* market_outlook and confidence, a sentiment_score from 0.3 to 0.9 and a
\* risk_level among Low, Medium, High
C20_SentimentResultShape ==
    t_tool = SentimentTool =>
        /\ DOMAIN t_result =
               {"asset", "sentiment_score", "risk_level", "social_sentiment",
                "news_sentiment", "market_outlook", "confidence"}
        /\ t_result.sentiment_score >= 30
        /\ t_result.sentiment_score <= 90
        /\ t_result.risk_level \in {Low, Medium, High}

\* the sentiment tool reported the lowest score, 0.3, with risk level High
C20_Witness ==
    /\ t_tool = SentimentTool
    /\ t_sample.score = 300
    /\ t_result.sentiment_score = 30
    /\ t_result.risk_level = High
    /\ "confidence" \in DOMAIN t_result

----------------------------------------------------------------------------
(* C24 *)

\* C24: every outcome of research reports the elapsed time of the call in
\* milliseconds to the caller: the returned result holds it as
\* execution_time_ms, and the exception of a failed call carries it as well
C24_ElapsedAlwaysReported ==
    /\ pc = "returned" =>
           result.execution_time_ms = (now - start_time) * 1000
    /\ pc = "raised" => "execution_time_ms" \in DOMAIN raised

----------------------------------------------------------------------------
(* C25 *)

\* the driver invocations of the call that have not ended yet
InProgress == IF pc = "invoking" THEN 1 ELSE 0

\* C25: within one call the attempts are sequential and bounded: the driver
\* is never invoked more than max_retries times, at most one invocation is in
\* progress, and once attempt k+1 has begun the validator has run on each of
\* the k attempts before it and rejected the text of attempt k
C25_SequentialBounded ==
    /\ invocations <= max_retries \/ invocations = 0
    /\ InProgress <= 1
    /\ invocations = attempt + InProgress
           \/ pc \in {"idle", "returned", "raised"}
    /\ (pc \in {"loop", "invoking"} /\ attempt >= 1) =>
        /\ validations = attempt
        /\ driver_exc = NoExc
        /\ ParseAndValidate(output_text, asset).exc # NoExc

----------------------------------------------------------------------------
(* C27 *)

\* C27: the validator runs only in the step in which a driver invocation
\* returns, once, on the text that invocation returned, and the outcome of
\* the attempt is the validator's outcome for that text; every attempt
\* invokes the driver anew with the prompt built from the requested asset,
\* the same prompt each time
C27_NoValidationAlone ==
    /\ [](/\ Len(prompts) = invocations
          /\ validations <= invocations
          /\ \A i \in 1..Len(prompts) :
                /\ prompts[i].asset = asset
                /\ prompts[i] = prompts[1])
    /\ [][/\ validations' # validations =>
                /\ DriverReturned
                /\ validations' = validations + 1
                /\ invocations' = invocations
                /\ (pc' = "returned") =
                       (ParseAndValidate(output_text', asset).exc = NoExc)
                /\ pc' = "returned" =>
                       result'.output = ParseAndValidate(output_text', asset).rec
          /\ DriverReturned => validations' = validations + 1
          /\ (pc = "loop" /\ pc' = "invoking") =>
                /\ invocations' = attempt + 1
                /\ Len(prompts') = Len(prompts) + 1]_vars

\* research returned on the second attempt: two prompts for "eth", two
\* validator runs
C27_Witness ==
    /\ pc = "returned"
    /\ asset = eth
    /\ invocations = 2
    /\ validations = 2
    /\ Len(prompts) = 2
    /\ prompts[2] = prompts[1]
    /\ prompts[1].asset = eth

----------------------------------------------------------------------------
(* C26 *)

\* research has returned a result or raised
Terminal == pc \in {"returned", "raised"}

\* C26: for max_retries >= 1 a call begins with attempt 1, eventually
\* returns or raises, ends in exactly one of the two ways, and takes no step
\* afterwards
C26_Terminates ==
    /\ [][(pc = "idle" /\ pc' # "idle") => (pc' = "loop" /\ attempt' = 0)]_vars
    /\ (pc = "loop" /\ attempt = 0 /\ max_retries >= 1) ~> Terminal
    /\ [](pc = "returned" => (raised = NoExc /\ result.success))
    /\ [](pc = "raised" => (raised # NoExc /\ result = NoResult))
    /\ [][~Terminal]_vars

\* a call with max_retries = 2 ended by returning on its second attempt
C26_Witness ==
    /\ pc = "returned"
    /\ max_retries = 2
    /\ attempt = 1
    /\ invocations = 2
    /\ raised = NoExc

----------------------------------------------------------------------------
(* C28 *)

\* the positions of a token in a text
Positions(text, tok) == {i \in 1..Len(text) : text[i] = tok}

Smallest(S) == CHOOSE i \in S : \A j \in S : i <= j
Largest(S) == CHOOSE i \in S : \A j \in S : j <= i

\* the text from its first '{' to its last '}' inclusive; empty when the
\* last '}' comes before the first '{'
OuterBraces(text) ==
    SubSeq(text, Smallest(Positions(text, LBrace)), Largest(Positions(text, RBrace)))

\* json.JSONDecodeError, or the ValueError of a text without braces
IsParseError(e) ==
    \/ e.cls = "JSONDecodeError"
    \/ (e.cls = "ValueError" /\ e.msg = "Could not find valid JSON in agent output")

\* C28: when the strict parse of the text fails, the outcome depends on one
\* substring only, the one from the first '{' to the last '}': with a brace
\* missing, with the last '}' before the first '{', or with that substring
\* not parsing, the validator fails with a parse error, whatever other
\* substring would parse; otherwise the substring's document is validated
C28_OneSubstringOnly ==
    (v_done /\ ~JsonLoads(v_text).ok) =>
        IF Positions(v_text, LBrace) = {} \/ Positions(v_text, RBrace) = {}
        THEN IsParseError(v_out.exc) /\ v_out.exc.cls = "ValueError"
        ELSE IF Largest(Positions(v_text, RBrace)) < Smallest(Positions(v_text, LBrace))
        THEN IsParseError(v_out.exc)
        ELSE IF ~JsonLoads(OuterBraces(v_text)).ok
        THEN IsParseError(v_out.exc)
        ELSE v_out = ValidateDoc(JsonLoads(OuterBraces(v_text)).doc, v_asset)

\* a valid object behind a stray '{' was rejected with a parse error although
\* the text from its second '{' on parses
C28_Witness ==
    /\ v_done
    /\ v_prefix = <<LBrace>>
    /\ v_body = ObjectText(BaseBTC)
    /\ v_suffix = <<>>
    /\ JsonLoads(v_body).ok
    /\ v_out.exc.cls = "JSONDecodeError"

----------------------------------------------------------------------------
(* C30 *)

PriceKeys ==
    {"asset", "price_usd", "change_24h_percent", "volume_24h_usd", "volatility"}

SentimentKeys ==
    {"asset", "sentiment_score", "risk_level", "social_sentiment",
     "news_sentiment", "market_outlook", "confidence"}

\* C30: the registry handed to the driver has exactly two wrappers, named
\* get_market_price and get_internal_sentiment; a call of a wrapper runs
\* execute of the tool of that name, and what it returns is a JSON string
\* that parses to an object with exactly the members of that tool's result
C30_WrappersCallOwnTool ==
    /\ Len(langchain_tools) = 2
    /\ langchain_tools[1].name = "get_market_price"
    /\ langchain_tools[2].name = "get_internal_sentiment"
    /\ langchain_tools[1].name # langchain_tools[2].name
    /\ t_wrapper # "" =>
        /\ t_tool = t_wrapper
        /\ DOMAIN t_result =
               (IF t_wrapper = "get_market_price" THEN PriceKeys ELSE SentimentKeys)
        /\ t_result.asset = Upper(t_asset)
        /\ JsonLoads(t_returned).ok
        /\ JsonLoads(t_returned).doc.t = "object"
        /\ DOMAIN JsonLoads(t_returned).doc.o = DOMAIN t_result
        /\ JsonLoads(t_returned).doc.o["asset"].s = t_result.asset
        /\ \A k \in (DOMAIN t_result) \ {"asset", "risk_level", "volatility",
                                         "market_outlook"} :
               JsonLoads(t_returned).doc.o[k].n = t_result[k]

\* the wrapper get_market_price, first of the two, returned the price
\* tool's result for "btc" as JSON
C30_Witness ==
    /\ t_wrapper = "get_market_price"
    /\ t_tool = PriceTool
    /\ t_asset = btc
    /\ JsonLoads(t_returned).ok
    /\ JsonLoads(t_returned).doc.o["volatility"].s = <<"high">>
    /\ JsonLoads(t_returned).doc.o["price_usd"].n = t_result.price_usd

----------------------------------------------------------------------------
(* C21 *)

\* sq is old with exactly one element appended
OneMore(sq, old) ==
    /\ Len(sq) = Len(old) + 1
    /\ SubSeq(sq, 1, Len(old)) = old

----------------------------------------------------------------------------
(* C22 *)

\* the stored reports that were created with request_id r, by report id
CreatedFor(r) == {i \in 1..Len(p_created) : p_created[i].request_id = r}

\* C22: get_report_by_request_id(r) returns None when no stored report was
\* created with request_id r, and otherwise a report with request_id r whose
\* asset, risk_level, tools_used and report_data are the ones given when
\* that report was created
C22_GetReturnsWhatWasCreated ==
    (p_last.op = "get_report" /\ p_last.exc = NoExc) =>
        /\ Len(p_created) = Len(p_reports)
        /\ CreatedFor(p_last.request_id) = {} => ~p_last.found
        /\ CreatedFor(p_last.request_id) # {} =>
            /\ p_last.found
            /\ p_last.report.request_id = p_last.request_id
            /\ p_last.report.id \in CreatedFor(p_last.request_id)
            /\ p_last.report.asset = p_created[p_last.report.id].asset
            /\ p_last.report.risk_level = p_created[p_last.report.id].risk_level
            /\ p_last.report.tools_used = p_created[p_last.report.id].tools_used
            /\ p_last.report.report_data = p_created[p_last.report.id].report_data

\* with reports stored for request 2 and then for request 1, the lookup for
\* request 1 returned the second report with its two tools
C22_Witness ==
    /\ p_last.op = "get_report"
    /\ p_last.request_id = 1
    /\ p_last.found
    /\ p_last.report.id = 2
    /\ p_last.report.request_id = 1
    /\ p_last.report.tools_used = <<PriceTool, SentimentTool>>
    /\ p_last.report.report_data["asset"] = Str(BTC)

----------------------------------------------------------------------------
(* C23 *)

\* C23: with research calls interleaved in any way on the one agent, each
\* returned result holds exactly the steps the driver returned to that
\* call's own invocations, all of them about the asset that call was given,
\* and a record validated against that asset; and each call's lists and
\* retry counter reflect only its own invocations and its own failures
C23_CallsShareNothing ==
    \A c \in CallIds :
        /\ c_calls[c].pc = "returned" =>
            /\ c_calls[c].result.agent_steps =
                   MapSeq(AgentStep, c_calls[c].driver_steps)
            /\ c_calls[c].result.tool_calls =
                   MapSeq(ToolCall, c_calls[c].driver_steps)
            /\ \A i \in 1..Len(c_calls[c].result.tool_calls) :
                   c_calls[c].result.tool_calls[i].input = c_calls[c].given_asset
            /\ c_calls[c].result.output.asset = Upper(c_calls[c].given_asset)
        /\ c_calls[c].pc \in {"loop", "invoking"} =>
            /\ c_frames[c].asset = c_calls[c].given_asset
            /\ c_frames[c].attempt = c_calls[c].failures
            /\ c_frames[c].agent_steps = MapSeq(AgentStep, c_calls[c].driver_steps)
            /\ c_frames[c].tool_calls = MapSeq(ToolCall, c_calls[c].driver_steps)

\* call 2 started after call 1's first attempt failed and returned before
\* call 1's second attempt did; both returned steps, for different assets
C23_Witness ==
    /\ c_calls[1].pc = "returned"
    /\ c_calls[2].pc = "returned"
    /\ c_calls[1].given_asset = BTC
    /\ c_calls[2].given_asset = eth
    /\ c_calls[1].failures = 1
    /\ c_frames[1].start_time = 0
    /\ c_calls[1].result.execution_time_ms = 3000
    /\ c_frames[2].start_time = 1
    /\ c_calls[2].result.execution_time_ms = 1000
    /\ Len(c_calls[1].result.agent_steps) = 2
    /\ Len(c_calls[2].result.agent_steps) = 1

----------------------------------------------------------------------------
(* C31 *)

\* the two lists go together: same length, and entry by entry the same tool
Paired(steps, calls) ==
    /\ Len(steps) = Len(calls)
    /\ \A i \in 1..Len(steps) : steps[i].action = calls[i].tool

----------------------------------------------------------------------------
(* C32 *)

\* the call ended with the statement after the loop (line 150)
ResearchFailedUnexpectedly ==
    /\ pc = "raised"
    /\ raised.cls = "Exception"
    /\ raised.msg = "Research failed unexpectedly"

\* the loop has run out of attempts and the statement after it comes next
LoopRanOut == pc = "loop" /\ ~(attempt < max_retries)

\* C32: a call ends with "Research failed unexpectedly" exactly when
\* max_retries <= 0, and then the driver was never invoked; with
\* max_retries >= 1 the loop never runs out, so that statement is not reached
C32_UnexpectedOnlyWithoutAttempts ==
    /\ ResearchFailedUnexpectedly => max_retries <= 0
    /\ (pc \in {"returned", "raised"} /\ max_retries <= 0) =>
           ResearchFailedUnexpectedly
    /\ (pc # "idle" /\ max_retries <= 0) => invocations = 0 /\ pc # "invoking"
    /\ max_retries >= 1 => ~LoopRanOut

\* a call with a negative max_retries ended with that failure, the driver
\* never invoked
C32_Witness ==
    /\ ResearchFailedUnexpectedly
    /\ max_retries < 0
    /\ invocations = 0
    /\ prompts = <<>>

----------------------------------------------------------------------------
(* C33 *)

\* the keys of a record _parse_and_validate_output returns
RecordKeys == {"asset", "risk_level", "sentiment_score", "tools_used", "analysis"}

\* C33: every record _parse_and_validate_output returns has exactly the
\* five keys asset, risk_level, sentiment_score, tools_used and analysis,
\* whatever other keys the text had, and its analysis is None when the text
\* had no analysis and the text's analysis otherwise
C33_ExactlyFiveKeys ==
    (v_done /\ v_out.exc = NoExc) =>
        /\ DOMAIN v_out.rec = RecordKeys
        /\ ~Has(EmittedMembers(v_text), "analysis") => v_out.rec.analysis = Null
        /\ Has(EmittedMembers(v_text), "analysis") =>
               v_out.rec.analysis = EmittedMembers(v_text)["analysis"]

\* a text with a sixth key and no analysis was accepted inside prose: the
\* record has no sixth key and its analysis is None
C33_Witness ==
    /\ v_done
    /\ v_out.exc = NoExc
    /\ v_prefix = <<Word>>
    /\ Has(EmittedMembers(v_text), "confidence")
    /\ ~Has(EmittedMembers(v_text), "analysis")
    /\ DOMAIN v_out.rec = RecordKeys
    /\ v_out.rec.analysis = Null

----------------------------------------------------------------------------
(* C34 *)

\* C34: after any sequence of create_request, create_report and
\* get_report_by_request_id calls, each call obtained one session and every
\* session obtained is closed, whether its call returned or raised
C34_NoSessionLeftOpen ==
    /\ Len(p_sessions) = p_calls
    /\ \A i \in 1..Len(p_sessions) : p_sessions[i] = "closed"

\* a lookup whose query failed ended a sequence in which an earlier call
\* failed too, and their sessions are closed
C34_Witness ==
    /\ p_last.op = "get_report"
    /\ p_last.exc # NoExc
    /\ p_calls >= 2
    /\ Len(p_reports) + Len(p_requests) < p_calls - 1
    /\ p_sessions[p_calls] = "closed"
    /\ p_sessions[1] = "closed"

====
